---- MODULE Spec2Model ----
(***************************************************************************)
(* The operator relay bot of purepagebot: two entry points of the same     *)
(* bot, src/index.js (long polling only) and src/unnamed/part_000 (webhook *)
(* or long polling).  The model has two parts:                             *)
(*   - the router: the Telegraf middleware chain registered by each entry  *)
(*     point, run on one update at a time (specification Spec);            *)
(*   - the transport bootstrap run once at process start (SpecBoot).       *)
(* Telegraf itself is an external library: its dispatch rule (middlewares  *)
(* run in registration order; a handler that does not call next() ends the *)
(* chain) is what Dispatch models.  Chats are private chats: the chat of   *)
(* an update is its sender.                                                *)
(***************************************************************************)
EXTENDS Integers, Sequences, FiniteSets, TLC

\* ------------------------------------------------------------------ bounds
\* How many messages the bot gets to send to the operators' chats in one run.
MaxMsgs == 2

\* ------------------------------------------------------- configuration/env
\* process.env.RU_OPERATOR_ID / EN_OPERATOR_ID are strings.
RU_OPERATOR_ID == "1"
EN_OPERATOR_ID == "2"

\* Telegram user ids (numbers): the two operators and an ordinary user.
UserIds == {1, 2, 3}

\* The two programs of the repository.
Entries == {"index.js", "part_000"}

\* String(id): decimal rendering of a numeric id.
Decimal == [n \in UserIds |-> ToString(n)]
String(n) == Decimal[n]

\* The chat a string chat_id names (the transport accepts both forms).
ParseId(s) == CHOOSE u \in UserIds : String(u) = s

OperatorChats == {ParseId(RU_OPERATOR_ID), ParseId(EN_OPERATOR_ID)}

OrdinaryUsers == UserIds \ OperatorChats

Langs == {"ru", "en"}
Unset == "unset"

\* ------------------------------------------------------------------- texts
\* A text is the sequence of the pieces it is concatenated from.
StartCmd == <<"/start">>
PlainTexts == {<<"help me">>, <<"here's the fix">>}
UserTexts == {StartCmd} \cup PlainTexts
Usernames == {"", "alice"}

ChooseLanguageText == <<"Choose your language:">>
ChooseFirstText == <<"Please choose your language first:">>
LangSetText(l) == IF l = "ru" THEN <<"ru: Language set.">> ELSE <<"en: Language set.">>
AckText(lang) ==
    IF lang = "ru" THEN <<"ru: Thanks! Support will reply shortly.">>
    ELSE <<"en: Thanks! Support will reply shortly.">>

Intro(lang, username, userId) ==
    <<IF lang = "ru" THEN "ru: New request from user @" ELSE "en: New request from user @",
      IF username # "" THEN username ELSE "unknown",
      " (id: ", String(userId), "):">>

NotificationText(lang, username, userId, text) ==
    Intro(lang, username, userId) \o <<"\n\n">> \o text

InstructionText(userIdStr) ==
    <<"Type your reply to user ", userIdStr, " as a reply to *this* message.">>

OnlyOperatorsText == <<"Only operators can reply.">>

\* Inline keyboards.
LangKeyboard == <<<<"lang", "ru">>, <<"lang", "en">>>>
ReplyKeyboard(userId) == <<<<"reply", String(userId)>>>>
NoMarkup == <<>>
\* { show_alert: true } of answerCbQuery.
ShowAlert == <<<<"show_alert">>>>

\* callback_data, as its '_'-separated segments: "lang_ru" is <<"lang","ru">>.
CallbackData ==
    {<<"lang", l>> : l \in Langs}
        \cup {<<"reply", String(u)>> : u \in OrdinaryUsers}
        \cup {<<"noop">>}

\* ------------------------------------------------------------------- state
VARIABLES
    entry,         \* which program runs
    userLanguage,  \* userId -> "ru" | "en" | Unset (absent from the Map)
    ticketMap,     \* <<operatorId string, message id>> -> stored user id
    nextId,        \* transport: next fresh message id of each operator's chat
    event,         \* the update handled last
    calls,         \* Bot API calls made while handling it, in order
    env,           \* WEBHOOK_URL, WEBHOOK_PATH of the process
    registered,    \* webhook URL registered at the platform before start
    phase,         \* "boot" | "webhook" | "polling" | "exited"
    bootCalls,     \* Bot API / launch calls made by the bootstrap, in order
    pending        \* handlers suspended at an awaited send (parallel handling)

routerVars == <<userLanguage, ticketMap, nextId, event, calls, pending>>
bootVars == <<env, registered, phase, bootCalls>>
vars == <<entry, userLanguage, ticketMap, nextId, event, calls,
          env, registered, phase, bootCalls, pending>>

\* An update, as the fields of it the handlers read:
\* <<kind, from.id, from.username, message.text, reply_to_message.message_id,
\*   callbackQuery.data>>.
Update(kind, from, username, text, reply_to, data) ==
    <<kind, from, username, text, reply_to, data>>
Kind(ctx) == ctx[1]
From(ctx) == ctx[2]
Username(ctx) == ctx[3]
Text(ctx) == ctx[4]
ReplyTo(ctx) == ctx[5]
Data(ctx) == ctx[6]

NoEvent == Update("none", 0, "", <<>>, 0, <<>>)

\* Message ids are modelled in the operators' chats, the only ones whose ids
\* the code reads; elsewhere sendMessage answers with this id.
Untracked == 0

\* The key of a ticket by message id alone.
KeyByMessage(operatorId, message_id) == <<"", message_id>>

\* `${operatorId}:${message_id}`
Key(operatorId, message_id) == <<operatorId, message_id>>

\* ------------------------------------------------------------ the transport
\* One Bot API call as the handler made it, with what the transport answered.
ApiCall(api, to, text, markup, ok, message_id) ==
    <<api, to, text, markup, ok, message_id>>
Api(c) == c[1]
To(c) == c[2]
Body(c) == c[3]
Markup(c) == c[4]
Ok(c) == c[5]
MessageId(c) == c[6]

\* The stores and the call log while one update is handled.  next: the handler
\* called next(); threw: an awaited call rejected and the handler ended there.
Ctx0(ul, tm, ni) ==
    [calls |-> <<>>, next |-> FALSE, nextId |-> ni, threw |-> FALSE,
     ticketMap |-> tm, userLanguage |-> ul]

\* await bot.telegram.sendMessage(chat, text, extra): a fresh message id of
\* that chat on success, a rejection otherwise.  An empty text is rejected.
SendMessage(S, chat, text, markup, ok) ==
    LET sent == ok /\ text # <<>> IN
    [S EXCEPT !.calls = Append(@, ApiCall("sendMessage", chat, text, markup, sent,
                                          IF sent /\ chat \in DOMAIN S.nextId
                                          THEN S.nextId[chat] ELSE Untracked)),
              !.nextId = [c \in DOMAIN @ |-> IF sent /\ c = chat THEN @[c] + 1 ELSE @[c]],
              !.threw = ~sent]

\* The message id the last sendMessage returned.
SentId(S) == MessageId(S.calls[Len(S.calls)])

EditMessageText(S, chat, text, ok) ==
    [S EXCEPT !.calls = Append(@, ApiCall("editMessageText", chat, text, NoMarkup, ok, 0)),
              !.threw = ~ok]

\* ctx.answerCbQuery(text, {show_alert})
AnswerCbQuery(S, chat, text, alert, ok) ==
    [S EXCEPT !.calls = Append(@, ApiCall("answerCbQuery", chat, text,
                                          IF alert THEN ShowAlert ELSE NoMarkup,
                                          ok, 0))]

\* The outcome drawn for the handler's next call.
NextOk(S, oc) == oc[Len(S.calls) + 1]

Pass(S) == [S EXCEPT !.next = TRUE]

\* ------------------------------------------------------------ the handlers
\* bot.start: the /start command.
BotStart(ctx, S, oc) ==
    IF ~(Kind(ctx) = "text" /\ Text(ctx) = StartCmd) THEN Pass(S)
    ELSE SendMessage(S, From(ctx), ChooseLanguageText, LangKeyboard, NextOk(S, oc))

\* Selecting the language one already has removes it.
LanguageToggle(ul, userId, l) == [ul EXCEPT ![userId] = IF @ = l THEN Unset ELSE l]

\* The language is set for every user.
LanguageSetEveryone(ul, userId, l) == [u \in DOMAIN ul |-> l]

\* userLanguage.set(userId, l)
LanguageSet(ul, userId, l) == [ul EXCEPT ![userId] = l]

\* bot.action('lang_ru') / bot.action('lang_en')
BotActionLang(l, ctx, S, oc) ==
    IF ~(Kind(ctx) = "callback_query" /\ Data(ctx) = <<"lang", l>>) THEN Pass(S)
    ELSE LET userId == From(ctx) IN
         EditMessageText([S EXCEPT !.userLanguage = LanguageSet(@, userId, l)],
                         From(ctx), LangSetText(l), NextOk(S, oc))

\* The new entry replaces the store.
TicketSetAlone(tm, key, value) == [k \in {key} |-> value]

\* ticketMap.set(key, value)
TicketSet(tm, key, value) ==
    [k \in DOMAIN tm \cup {key} |-> IF k = key THEN value ELSE tm[k]]

\* The two operators swapped.
OperatorForSwapped(lang) == IF lang = "ru" THEN EN_OPERATOR_ID ELSE RU_OPERATOR_ID

\* The operator a language is bound to.
OperatorFor(lang) == IF lang = "ru" THEN RU_OPERATOR_ID ELSE EN_OPERATOR_ID

\* Only the first operator is recognised.
IgnoredSenderRuOnly(userId) == String(userId) = RU_OPERATOR_ID

\* The guard of the first bot.on('text'): messages of operators are ignored.
IgnoredSender(userId) ==
    String(userId) = RU_OPERATOR_ID \/ String(userId) = EN_OPERATOR_ID

\* The language check left out.
NoLanguageNever(lang) == FALSE

\* !lang: userLanguage.get(userId) found nothing.
NoLanguage(lang) == lang = Unset

\* The first bot.on('text'), after the notification was sent: record the
\* ticket, then thank the sender.
Acknowledge(ctx, lang, S, oc) ==
    SendMessage(S, From(ctx), AckText(lang), NoMarkup, NextOk(S, oc))

\* The sender is thanked whether or not the notification was sent.
ForwardedRegardless(ctx, lang, operatorId, S, oc) == Acknowledge(ctx, lang, S, oc)

Forwarded(ctx, lang, operatorId, S, oc) ==
    IF S.threw THEN S
    ELSE Acknowledge(ctx, lang,
                     [S EXCEPT !.ticketMap = TicketSet(@, Key(operatorId, SentId(S)), From(ctx))],
                     oc)

\* The first bot.on('text'): user messages.  It never calls next().
OnTextUser(ctx, S, oc) ==
    IF Kind(ctx) # "text" THEN Pass(S)
    ELSE
    LET userId == From(ctx) IN
    IF IgnoredSender(userId) THEN S
    ELSE
    LET lang == S.userLanguage[userId] IN
    IF NoLanguage(lang)
    THEN SendMessage(S, From(ctx), ChooseFirstText, LangKeyboard, NextOk(S, oc))
    ELSE
    LET operatorId == OperatorFor(lang) IN
    Forwarded(ctx, lang, operatorId,
              SendMessage(S, ParseId(operatorId),
                          NotificationText(lang, Username(ctx), userId, Text(ctx)),
                          ReplyKeyboard(userId), NextOk(S, oc)),
              oc)

\* bot.on('callback_query'), after the instruction was sent.
Instructed(ctx, fromId, userId, S, oc) ==
    IF S.threw THEN S
    ELSE AnswerCbQuery([S EXCEPT !.ticketMap =
                           TicketSet(@, Key(fromId, SentId(S)), ParseId(userId))],
                       From(ctx), <<>>, FALSE, NextOk(S, oc))

\* bot.on('callback_query') of part_000.
OnCallbackQuery(ctx, S, oc) ==
    IF Kind(ctx) # "callback_query" THEN Pass(S)
    ELSE
    LET data == Data(ctx) IN
    IF data[1] # "reply" THEN S
    ELSE
    LET fromId == String(From(ctx))
        isOperator == fromId = RU_OPERATOR_ID \/ fromId = EN_OPERATOR_ID
    IN
    IF ~isOperator
    THEN AnswerCbQuery(S, From(ctx), OnlyOperatorsText, TRUE, NextOk(S, oc))
    ELSE
    LET userId == data[2] IN
    Instructed(ctx, fromId, userId,
               SendMessage(S, From(ctx), InstructionText(userId), NoMarkup, NextOk(S, oc)),
               oc)

InstructedIndex(ctx, S, oc) ==
    IF S.threw THEN S
    ELSE AnswerCbQuery(S, From(ctx), <<>>, FALSE, NextOk(S, oc))

\* bot.on('callback_query') of index.js.
OnCallbackQueryIndex(ctx, S, oc) ==
    IF Kind(ctx) # "callback_query" THEN Pass(S)
    ELSE
    LET data == Data(ctx) IN
    IF data[1] # "reply" THEN S
    ELSE
    LET userId == data[2] IN
    InstructedIndex(ctx,
                    SendMessage(S, From(ctx), InstructionText(userId), NoMarkup, NextOk(S, oc)),
                    oc)

\* The operator-reply handler body, shared by both registrations.
OperatorReply(ctx, S, oc) ==
    LET fromId == String(From(ctx))
        isOperator == fromId = RU_OPERATOR_ID \/ fromId = EN_OPERATOR_ID
    IN
    IF ~isOperator THEN S
    ELSE IF ReplyTo(ctx) = 0 THEN S
    ELSE
    LET key == Key(fromId, ReplyTo(ctx)) IN
    IF key \notin DOMAIN S.ticketMap THEN S
    ELSE SendMessage(S, S.ticketMap[key], Text(ctx), NoMarkup, NextOk(S, oc))

\* The second bot.on('text') of part_000: operator replies.
OnTextOperator(ctx, S, oc) ==
    IF Kind(ctx) # "text" THEN Pass(S) ELSE OperatorReply(ctx, S, oc)

\* bot.on('message') of index.js: operator replies.
OnMessageOperator(ctx, S, oc) ==
    IF Kind(ctx) \notin {"text", "message"} THEN Pass(S) ELSE OperatorReply(ctx, S, oc)

\* ------------------------------------------------------------ the dispatch
\* A middleware starts with next() not yet called.
Enter(S) == [S EXCEPT !.next = FALSE]

\* Telegraf's composition: the middlewares run in the order the program
\* registers them, each only if the one before it called next().
\* The chain of part_000.
DispatchPart000(ctx, S, oc) ==
    LET r1 == BotStart(ctx, Enter(S), oc) IN
    IF ~r1.next THEN r1 ELSE
    LET r2 == BotActionLang("ru", ctx, Enter(r1), oc) IN
    IF ~r2.next THEN r2 ELSE
    LET r3 == BotActionLang("en", ctx, Enter(r2), oc) IN
    IF ~r3.next THEN r3 ELSE
    LET r4 == OnTextUser(ctx, Enter(r3), oc) IN
    IF ~r4.next THEN r4 ELSE
    LET r5 == OnCallbackQuery(ctx, Enter(r4), oc) IN
    IF ~r5.next THEN r5 ELSE
    OnTextOperator(ctx, Enter(r5), oc)

\* The chain of index.js.
DispatchIndex(ctx, S, oc) ==
    LET r1 == BotStart(ctx, Enter(S), oc) IN
    IF ~r1.next THEN r1 ELSE
    LET r2 == BotActionLang("ru", ctx, Enter(r1), oc) IN
    IF ~r2.next THEN r2 ELSE
    LET r3 == BotActionLang("en", ctx, Enter(r2), oc) IN
    IF ~r3.next THEN r3 ELSE
    LET r4 == OnTextUser(ctx, Enter(r3), oc) IN
    IF ~r4.next THEN r4 ELSE
    LET r5 == OnCallbackQueryIndex(ctx, Enter(r4), oc) IN
    IF ~r5.next THEN r5 ELSE
    OnMessageOperator(ctx, Enter(r5), oc)

Dispatch(e, ctx, S, oc) ==
    IF e = "part_000" THEN DispatchPart000(ctx, S, oc) ELSE DispatchIndex(ctx, S, oc)

\* Outcomes of the (at most two) Bot API calls of one handler: fails = 0,
\* none fails; fails = k, the k-th call is rejected.
AllOk == <<TRUE, TRUE>>
FailingAt(fails) == [k \in 1..2 |-> k # fails]

\* Messages sent to the operators' chats so far.
RECURSIVE SumOver(_, _)
SumOver(f, D) ==
    IF D = {} THEN 0
    ELSE LET c == CHOOSE x \in D : TRUE IN f[c] + SumOver(f, D \ {c})

\* reply_to_message.message_id of an update; 0: the message replies to nothing.
ReplyIds == 0..MaxMsgs

SentToOperators(ni) == SumOver([c \in DOMAIN ni |-> ni[c] - 1], DOMAIN ni)

Running == phase \in {"webhook", "polling"}

\* A call of the handling was rejected.  No handler has a try/catch and the
\* program installs no bot.catch, so the rejection of an awaited call rejects
\* the handler, and that of the un-awaited answerCbQuery is unhandled.
Rejected(cs) == \E i \in 1..Len(cs) : ~Ok(cs[i])

\* What becomes of the process after a handling.  The library's default error
\* handler rethrows a handler's rejection: it ends the polling loop and with
\* it bot.launch (startBot().catch: process.exit(1)), or stays an unhandled
\* rejection, which the runtime logs or ends the process on, by its version.
PhasesAfter(ph, cs) == IF Rejected(cs) THEN {ph, "exited"} ELSE {ph}

\* The bot handles one update: the whole chain, to completion.  Any one of the
\* calls the handler gets to make may be rejected by the transport.
Handle(ctx) ==
    /\ Running
    /\ \E R0 \in {Dispatch(entry, ctx, Ctx0(userLanguage, ticketMap, nextId), AllOk)} :
         \E fails \in 0..Len(R0.calls) :
           \E R \in {IF fails = 0 THEN R0
                     ELSE Dispatch(entry, ctx, Ctx0(userLanguage, ticketMap, nextId),
                                   FailingAt(fails))} :
             /\ SentToOperators(R.nextId) <= MaxMsgs
             /\ userLanguage' = R.userLanguage
             /\ ticketMap' = R.ticketMap
             /\ nextId' = R.nextId
             /\ event' = ctx
             /\ calls' = R.calls
             /\ phase' \in PhasesAfter(phase, R.calls)
    /\ UNCHANGED <<entry, env, registered, bootCalls, pending>>

TextUpdate(from, username, text, reply_to) ==
    Update("text", from, username, text, reply_to, <<>>)

\* A message without text (a photo, a sticker).
MessageUpdate(from, username, reply_to) ==
    Update("message", from, username, <<>>, reply_to, <<>>)

CallbackUpdate(from, username, data) ==
    Update("callback_query", from, username, <<>>, 0, data)

\* ------------------------------------------------------------- the updates
\* The username of an operator's account is never read.
StartCommand ==
    \E u \in UserIds, n \in Usernames :
        /\ u \in OperatorChats => n = ""
        /\ Handle(TextUpdate(u, n, StartCmd, 0))

UserText ==
    \E u \in OrdinaryUsers, n \in Usernames, t \in PlainTexts :
        Handle(TextUpdate(u, n, t, 0))

OperatorText ==
    \E u \in OperatorChats, t \in PlainTexts, r \in ReplyIds :
        Handle(TextUpdate(u, "", t, r))

OtherMessage ==
    \E u \in UserIds, r \in ReplyIds :
        /\ u \notin OperatorChats => r = 0
        /\ Handle(MessageUpdate(u, "", r))

LanguageSelection ==
    \E u \in UserIds, l \in Langs :
        Handle(CallbackUpdate(u, "", <<"lang", l>>))

ReplyRequest ==
    \E u \in UserIds, t \in OrdinaryUsers :
        Handle(CallbackUpdate(u, "", <<"reply", String(t)>>))

OtherCallback ==
    \E u \in UserIds :
        Handle(CallbackUpdate(u, "", <<"noop">>))

\* ------------------------------------------------------------ the bootstrap
\* A URL is <<origin, pathname>>; <<>> is "not set"; a one-piece value does
\* not parse as a URL.
BOT_TOKEN == "TOKEN"
NoUrl == <<>>
InvalidUrl == <<"not a url">>
WebhookUrls == {NoUrl, InvalidUrl, <<"https://h", "/">>, <<"https://h", "/p">>}
WebhookPaths == {"", "/w"}
DefaultHookPath == "/telegraf/" \o BOT_TOKEN
\* What the platform may hold as the registered webhook when the process starts.
RegisteredUrls ==
    {NoUrl, <<"https://old", "/hook">>, <<"https://h", "/p">>, <<"https://h", "/w">>,
     <<"https://h", DefaultHookPath>>}

ApiResults == {"ok", "429", "error"}

\* No failure is taken for rate limiting.
Includes429Never(result) == FALSE

\* Every failure is taken for rate limiting.
Includes429Always(result) == TRUE

\* err.message.includes('429')
Includes429(result) == result = "429"

\* Every reported URL is taken to differ.
UrlDiffersAlways(url, fullUrl) == TRUE

\* info.url !== fullUrl
UrlDiffers(url, fullUrl) == url # fullUrl

BootCall(api, arg, result) == <<api, arg, result>>

\* getWebhookConfig(): null (here NoUrl) without WEBHOOK_URL; new URL() throws
\* on a value that is no URL (here InvalidUrl is returned for it).
GetWebhookConfig(ev) ==
    IF ev.WEBHOOK_URL = NoUrl THEN NoUrl
    ELSE IF Len(ev.WEBHOOK_URL) # 2 THEN InvalidUrl
    ELSE LET url == ev.WEBHOOK_URL
             domain == url[1]
             hookPath == IF url[2] # "/" THEN url[2]
                         ELSE IF ev.WEBHOOK_PATH # "" THEN ev.WEBHOOK_PATH
                         ELSE DefaultHookPath
         IN <<domain, hookPath>>

\* The state of one run of the bootstrap: the calls so far, whether it is
\* still running, and the webhook the platform holds.
Boot0(reg) == [log |-> <<>>, phase |-> "boot", registered |-> reg]

\* bot.launch(config): starts the webhook server or long polling.  In polling
\* mode the library clears the registered webhook itself.
Launch(B, config, result) ==
    [B EXCEPT !.log = Append(@, BootCall("launch", config, result)),
              !.phase = IF result # "ok" THEN "exited"
                        ELSE IF config # <<>> /\ config[1] = "webhook" THEN "webhook"
                        ELSE "polling",
              !.registered = IF result = "ok" /\ ~(config # <<>> /\ config[1] = "webhook")
                             THEN NoUrl ELSE @]

SetWebhook(B, fullUrl, result) ==
    [B EXCEPT !.log = Append(@, BootCall("setWebhook", fullUrl, result)),
              !.registered = IF result = "ok" THEN fullUrl ELSE @]

DeleteWebhook(B, result) ==
    [B EXCEPT !.log = Append(@, BootCall("deleteWebhook", <<"drop_pending_updates">>, result)),
              !.registered = IF result = "ok" THEN NoUrl ELSE @]

GetWebhookInfo(B, result) ==
    [B EXCEPT !.log = Append(@, BootCall("getWebhookInfo", B.registered, result))]

\* startBot().catch(...): process.exit(1)
Exit(B) == [B EXCEPT !.phase = "exited"]

\* The result drawn for the bootstrap's next call.
NextResult(B, rs) == rs[Len(B.log) + 1]

\* The try/catch of startBot around the status query and the registration.
Reconcile(B, fullUrl, rs) ==
    LET B1 == GetWebhookInfo(B, NextResult(B, rs))
        r1 == NextResult(B, rs)
    IN
    IF r1 = "ok"
    THEN IF UrlDiffers(B.registered, fullUrl)
         THEN LET r2 == NextResult(B1, rs)
                  B2 == SetWebhook(B1, fullUrl, r2)
              IN  IF r2 = "ok" THEN B2
                  ELSE IF ~Includes429(r2)
                       THEN LET r3 == NextResult(B2, rs)
                                B3 == SetWebhook(B2, fullUrl, r3)
                            IN  IF r3 = "ok" THEN B3 ELSE Exit(B3)
                       ELSE B2
         ELSE B1
    ELSE IF ~Includes429(r1)
         THEN LET r2 == NextResult(B1, rs)
                  B2 == SetWebhook(B1, fullUrl, r2)
              IN  IF r2 = "ok" THEN B2 ELSE Exit(B2)
         ELSE B1

\* startBot() of part_000.
StartBotRun(ev, reg, rs) ==
    LET webhookConfig == GetWebhookConfig(ev)
        B == Boot0(reg)
    IN
    IF webhookConfig = InvalidUrl THEN Exit(B)
    ELSE IF webhookConfig # NoUrl
    THEN LET fullUrl == webhookConfig
             B1 == Reconcile(B, fullUrl, rs)
         IN  IF B1.phase = "exited" THEN B1
             ELSE Launch(B1, <<"webhook", fullUrl[2]>>, NextResult(B1, rs))
    ELSE LET r1 == NextResult(B, rs)
             B1 == DeleteWebhook(B, r1)
         IN  IF r1 # "ok" THEN Exit(B1)
             ELSE Launch(B1, <<"dropPendingUpdates">>, NextResult(B1, rs))

\* bot.launch() of index.js.
LaunchIndexRun(reg, rs) ==
    LET B == Boot0(reg) IN Launch(B, <<>>, NextResult(B, rs))

\* Results of the (at most four) calls of one bootstrap run.
BootResults == [1..4 -> ApiResults]

Boot(B) ==
    /\ phase = "boot"
    /\ phase' = B.phase
    /\ bootCalls' = B.log
    /\ registered' = B.registered
    /\ UNCHANGED <<entry, env, userLanguage, ticketMap, nextId, event, calls, pending>>

StartBot ==
    /\ entry = "part_000"
    /\ \E rs \in BootResults : Boot(StartBotRun(env, registered, rs))

LaunchIndex ==
    /\ entry = "index.js"
    /\ \E rs \in BootResults : Boot(LaunchIndexRun(registered, rs))

\* The process is started again, with the same environment; meanwhile the
\* platform's registered webhook may have been changed from outside.
Restart ==
    /\ phase # "boot"
    /\ phase' = "boot"
    /\ bootCalls' = <<>>
    /\ registered' \in RegisteredUrls
    /\ userLanguage' = [u \in UserIds |-> Unset]
    /\ ticketMap' = <<>>
    /\ nextId' = nextId
    /\ event' = NoEvent
    /\ calls' = <<>>
    /\ pending' = {}
    /\ UNCHANGED <<entry, env>>

\* ------------------------------------------------------- parallel handling
\* Webhook mode hands each update to the bot as a request of its own, so the
\* handlers of several updates are in progress at once and interleave where
\* they await a send.  A handler that touches a store after an awaited send
\* is taken in three steps: it runs up to the send, the transport delivers
\* the message, the answer resumes the handler.  Every other handler has
\* finished with the stores when it first awaits and is taken in one step.
MaxPending == 2

\* A suspended handler: its update, the language it read, how far its send
\* got ("issued" | "delivered"), and the send with the transport's answer.
Suspended(ctx, lang, stage, c) == <<ctx, lang, stage, c>>
Stage(h) == h[3]
Sent(h) == h[4]

\* A call on its way: no answer, no message id yet.
Unanswered(c) == ApiCall(Api(c), To(c), Body(c), Markup(c), FALSE, Untracked)

\* The handler of ctx writes ticketMap after its first awaited send.
Suspends(ctx) ==
    Dispatch(entry, ctx, Ctx0(userLanguage, ticketMap, nextId), AllOk).ticketMap # ticketMap

\* The handler runs up to its first await: the send is issued.
Receive(ctx) ==
    /\ Running
    /\ Cardinality(pending) < MaxPending
    /\ SentToOperators(nextId) + Cardinality({h \in pending : Stage(h) = "issued"}) < MaxMsgs
    /\ \E R0 \in {Dispatch(entry, ctx, Ctx0(userLanguage, ticketMap, nextId), AllOk)} :
         \E h \in {Suspended(ctx, userLanguage[From(ctx)], "issued", Unanswered(R0.calls[1]))} :
            /\ h \notin pending
            /\ pending' = pending \cup {h}
    /\ event' = ctx
    /\ calls' = <<>>
    /\ UNCHANGED <<entry, userLanguage, ticketMap, nextId, env, registered, phase, bootCalls>>

\* An update arrives and its handler starts.
Arrive(ctx) == IF Suspends(ctx) THEN Receive(ctx) ELSE Handle(ctx)

\* The transport accepts an issued send, giving the message its id in the
\* chat, or rejects it; the handler has not seen the answer yet.
Deliver ==
    /\ Running
    /\ \E h \in pending, ok \in BOOLEAN :
         /\ Stage(h) = "issued"
         /\ \E S \in {SendMessage(Ctx0(userLanguage, ticketMap, nextId), To(Sent(h)),
                                   Body(Sent(h)), Markup(Sent(h)), ok)} :
              /\ SentToOperators(S.nextId) <= MaxMsgs
              /\ nextId' = S.nextId
              /\ pending' = (pending \ {h}) \cup {Suspended(h[1], h[2], "delivered", S.calls[1])}
    /\ event' = NoEvent
    /\ calls' = <<>>
    /\ UNCHANGED <<entry, userLanguage, ticketMap, env, registered, phase, bootCalls>>

\* The rest of a suspended handler, from the answer to its send.
Continue(ctx, lang, S, oc) ==
    IF Kind(ctx) = "text"
    THEN Forwarded(ctx, lang, OperatorFor(lang), S, oc)
    ELSE Instructed(ctx, String(From(ctx)), Data(ctx)[2], S, oc)

\* The answer reaches the handler, which runs to its end against the stores
\* as they are now.
Resume ==
    /\ Running
    /\ \E h \in pending, ok \in BOOLEAN :
         /\ Stage(h) = "delivered"
         /\ \E R \in {Continue(h[1], h[2],
                               [Ctx0(userLanguage, ticketMap, nextId)
                                   EXCEPT !.calls = <<Sent(h)>>, !.threw = ~Ok(Sent(h))],
                               <<TRUE, ok>>)} :
              /\ ticketMap' = R.ticketMap
              /\ nextId' = R.nextId
              /\ event' = h[1]
              /\ calls' = R.calls
              /\ phase' \in PhasesAfter(phase, R.calls)
              /\ pending' = pending \ {h}
    /\ UNCHANGED <<entry, userLanguage, env, registered, bootCalls>>

ParUserText ==
    \E u \in OrdinaryUsers, t \in PlainTexts :
        Arrive(TextUpdate(u, "", t, 0))

ParLanguageSelection ==
    \E u \in OrdinaryUsers, l \in Langs :
        Arrive(CallbackUpdate(u, "", <<"lang", l>>))

ParReplyRequest ==
    \E u \in OperatorChats, t \in OrdinaryUsers :
        Arrive(CallbackUpdate(u, "", <<"reply", String(t)>>))

\* An operator replies to a message that is in the operator's chat.
ParOperatorReply ==
    \E u \in OperatorChats, r \in ReplyIds \ {0} :
        /\ r < nextId[u]
        /\ Arrive(TextUpdate(u, "", <<"here's the fix">>, r))

\* -------------------------------------------------------- the specifications
EmptyStores ==
    /\ userLanguage = [u \in UserIds |-> Unset]
    /\ ticketMap = <<>>
    /\ nextId = [u \in OperatorChats |-> 1]
    /\ event = NoEvent
    /\ calls = <<>>
    /\ pending = {}

\* The router, from the moment the bot is launched (long polling, no webhook
\* configured, every bootstrap call succeeded).
Init ==
    /\ entry \in Entries
    /\ env = [WEBHOOK_PATH |-> "", WEBHOOK_URL |-> NoUrl]
    /\ registered = NoUrl
    /\ phase = "polling"
    /\ bootCalls = (IF entry = "part_000"
                    THEN StartBotRun(env, NoUrl, [i \in 1..4 |-> "ok"])
                    ELSE LaunchIndexRun(NoUrl, [i \in 1..4 |-> "ok"])).log
    /\ EmptyStores

Next ==
    \/ StartCommand
    \/ UserText
    \/ OperatorText
    \/ OtherMessage
    \/ LanguageSelection
    \/ ReplyRequest
    \/ OtherCallback

Spec == Init /\ [][Next]_vars

\* The bootstrap, from process start.
InitBoot ==
    /\ entry \in Entries
    /\ env \in [WEBHOOK_PATH : WebhookPaths, WEBHOOK_URL : WebhookUrls]
    /\ registered \in RegisteredUrls
    /\ phase = "boot"
    /\ bootCalls = <<>>
    /\ EmptyStores

NextBoot ==
    \/ StartBot
    \/ LaunchIndex
    \/ Restart

SpecBoot == InitBoot /\ [][NextBoot]_vars

\* part_000 serving a webhook: the desired URL was registered already and
\* every bootstrap call succeeded.
InitPar ==
    /\ entry = "part_000"
    /\ env = [WEBHOOK_PATH |-> "", WEBHOOK_URL |-> <<"https://h", "/p">>]
    /\ registered = GetWebhookConfig(env)
    /\ phase = "webhook"
    /\ bootCalls = StartBotRun(env, registered, [i \in 1..4 |-> "ok"]).log
    /\ EmptyStores

\* The router with handlers in progress at once.
NextPar ==
    \/ ParUserText
    \/ ParLanguageSelection
    \/ ParReplyRequest
    \/ ParOperatorReply
    \/ Deliver
    \/ Resume

SpecPar == InitPar /\ [][NextPar]_vars

\* ================================================================== claims
\* Vocabulary of the claims.  In a step of Spec, event' is the update the step
\* handles and calls' the Bot API calls its handlers made, in order; the
\* unprimed stores are those the update met.

\* Every call of the handling was accepted by the transport.
AllAccepted(cs) == \A i \in 1..Len(cs) : Ok(cs[i])

\* An operator-facing notification: a message carrying the reply affordance.
IsNotification(c) ==
    Api(c) = "sendMessage" /\ \E u \in UserIds : Markup(c) = <<<<"reply", Decimal[u]>>>>

\* A language-selection prompt: a message carrying the ru/en keyboard.
IsLanguagePrompt(c) ==
    Api(c) = "sendMessage" /\ Markup(c) = <<<<"lang", "ru">>, <<"lang", "en">>>>

\* The operator identity bound to a language.
BoundOperator(L) == ParseId(IF L = "ru" THEN RU_OPERATOR_ID ELSE EN_OPERATOR_ID)

\* The correlation key of responder o and bot message m.
CorrelationKey(o, m) == <<Decimal[o], m>>

\* ------------------------------------------------------------------- C1
\* C1: when an operator sends a text message replying to bot message m and
\* the store holds (operator, m) -> u, handling it sends exactly one message,
\* to u, whose text is the operator's text, and nothing to anyone else.
C1_OperatorReplyForwarded ==
    [][LET e == event'
           k == CorrelationKey(From(e), ReplyTo(e))
       IN  (Kind(e) = "text" /\ From(e) \in OperatorChats /\ k \in DOMAIN ticketMap)
             => /\ Len(calls') = 1
                /\ Api(calls'[1]) = "sendMessage"
                /\ To(calls'[1]) = ticketMap[k]
                /\ Body(calls'[1]) = Text(e)]_vars

\* ------------------------------------------------------------------- C2
\* C2: every operator notification the transport accepted (message id m in
\* the chat of operator o, on behalf of sender s) adds exactly the entry
\* (o, m) -> s to the store and leaves every other entry as it was.
C2_NotificationRecorded ==
    [][\A i \in 1..Len(calls') :
         LET c == calls'[i]
             k == CorrelationKey(To(c), MessageId(c))
         IN  (IsNotification(c) /\ Ok(c))
               => /\ From(event') \notin OperatorChats
                  /\ k \notin DOMAIN ticketMap
                  /\ DOMAIN ticketMap' = DOMAIN ticketMap \cup {k}
                  /\ ticketMap'[k] = From(event')
                  /\ \A j \in DOMAIN ticketMap : ticketMap'[j] = ticketMap[j]]_vars

\* A notification was recorded beside an older entry.
C2_Witness ==
    /\ Cardinality(DOMAIN ticketMap) >= 2
    /\ \E i \in 1..Len(calls) :
         /\ IsNotification(calls[i]) /\ Ok(calls[i])
         /\ CorrelationKey(To(calls[i]), MessageId(calls[i])) \in DOMAIN ticketMap
         /\ ticketMap[CorrelationKey(To(calls[i]), MessageId(calls[i]))] = From(event)

\* ------------------------------------------------------------------- C3
\* The handling forwards the message of user U to the operator bound to L,
\* to no other operator, and acknowledges it to U in language L.
ForwardedIn(L, U, cs) ==
    /\ \E i \in 1..Len(cs) : IsNotification(cs[i]) /\ To(cs[i]) = BoundOperator(L)
    /\ \A i \in 1..Len(cs) : To(cs[i]) \in OperatorChats => To(cs[i]) = BoundOperator(L)
    /\ \E i \in 1..Len(cs) : To(cs[i]) = U /\ Body(cs[i]) = AckText(L)
    /\ \A i \in 1..Len(cs) : To(cs[i]) = U => Body(cs[i]) = AckText(L)

\* C3 as stated: once the last selection of non-operator U is L, every text
\* message of U is forwarded to the operator bound to L and to no other, and
\* acknowledged in L (the transport accepting the sends).
C3_EveryTextForwarded ==
    [][LET e == event'
           U == From(e)
       IN  (Kind(e) = "text" /\ U \in OrdinaryUsers /\ userLanguage[U] \in Langs
              /\ AllAccepted(calls'))
             => ForwardedIn(userLanguage[U], U, calls')]_vars

\* C3, amended: the same of every text message other than the /start command.
C3_TextForwardedExceptStart ==
    [][LET e == event'
           U == From(e)
       IN  (Kind(e) = "text" /\ U \in OrdinaryUsers /\ userLanguage[U] \in Langs
              /\ Text(e) # StartCmd /\ AllAccepted(calls'))
             => ForwardedIn(userLanguage[U], U, calls')]_vars

\* A user with language ru had a message forwarded to the ru operator.
C3_Witness ==
    /\ Kind(event) = "text" /\ From(event) \in OrdinaryUsers /\ Text(event) # StartCmd
    /\ userLanguage[From(event)] = "ru"
    /\ Len(calls) = 2 /\ AllAccepted(calls)
    /\ IsNotification(calls[1]) /\ To(calls[1]) = BoundOperator("ru")
    /\ Body(calls[2]) = AckText("ru")

\* ------------------------------------------------------------------- C4
\* C4: a text message of a non-operator user without a language makes the bot
\* send the language-selection prompt to that user and nothing else, and
\* leaves the correlation store as it was.
C4_PromptBeforeLanguage ==
    [][LET e == event'
           U == From(e)
       IN  (Kind(e) = "text" /\ U \in OrdinaryUsers /\ userLanguage[U] = Unset)
             => /\ Len(calls') = 1
                /\ IsLanguagePrompt(calls'[1])
                /\ To(calls'[1]) = U
                /\ ticketMap' = ticketMap]_vars

\* A user without a language wrote while a ticket of someone was open.
C4_Witness ==
    /\ Kind(event) = "text" /\ From(event) \in OrdinaryUsers /\ Text(event) # StartCmd
    /\ userLanguage[From(event)] = Unset
    /\ Len(calls) = 1 /\ Body(calls[1]) = ChooseFirstText /\ Ok(calls[1])
    /\ ticketMap # <<>>

\* ------------------------------------------------------------------- C5
\* C5: when operator o invokes the reply-request affordance for user t, the
\* bot sends a prompt p to o and records (o, p) -> t (the transport accepting
\* the sends).
C5_ReplyRequestRegisters ==
    [][LET e == event'
           o == From(e)
       IN  (Kind(e) = "callback_query" /\ Data(e)[1] = "reply" /\ o \in OperatorChats
              /\ AllAccepted(calls'))
             => /\ Len(calls') >= 1
                /\ Api(calls'[1]) = "sendMessage"
                /\ To(calls'[1]) = o
                /\ CorrelationKey(o, MessageId(calls'[1])) \in DOMAIN ticketMap'
                /\ Decimal[ticketMap'[CorrelationKey(o, MessageId(calls'[1]))]] = Data(e)[2]]_vars

\* C5 of part_000 alone.
C5_Part000_ReplyRequestRegisters ==
    [][LET e == event'
           o == From(e)
       IN  (entry = "part_000" /\ Kind(e) = "callback_query" /\ Data(e)[1] = "reply"
              /\ o \in OperatorChats /\ AllAccepted(calls'))
             => /\ Len(calls') >= 1
                /\ Api(calls'[1]) = "sendMessage"
                /\ To(calls'[1]) = o
                /\ CorrelationKey(o, MessageId(calls'[1])) \in DOMAIN ticketMap'
                /\ Decimal[ticketMap'[CorrelationKey(o, MessageId(calls'[1]))]] = Data(e)[2]]_vars

\* ------------------------------------------------------------------- C6
\* C6: when a sender that is no operator invokes the reply-request affordance,
\* the only effect is a visible rejection answered to that caller: no message
\* is sent and both stores stay as they were.
C6_NonOperatorRejected ==
    [][LET e == event'
       IN  (Kind(e) = "callback_query" /\ Data(e)[1] = "reply" /\ From(e) \notin OperatorChats)
             => /\ Len(calls') = 1
                /\ Api(calls'[1]) = "answerCbQuery"
                /\ To(calls'[1]) = From(e)
                /\ Body(calls'[1]) # <<>>
                /\ Markup(calls'[1]) = <<<<"show_alert">>>>
                /\ userLanguage' = userLanguage
                /\ ticketMap' = ticketMap]_vars

\* C6 of part_000 alone.
C6_Part000_NonOperatorRejected ==
    [][LET e == event'
       IN  (entry = "part_000" /\ Kind(e) = "callback_query" /\ Data(e)[1] = "reply"
              /\ From(e) \notin OperatorChats)
             => /\ Len(calls') = 1
                /\ Api(calls'[1]) = "answerCbQuery"
                /\ To(calls'[1]) = From(e)
                /\ Body(calls'[1]) # <<>>
                /\ Markup(calls'[1]) = <<<<"show_alert">>>>
                /\ userLanguage' = userLanguage
                /\ ticketMap' = ticketMap]_vars

\* ------------------------------------------------------------------- C7
\* The operator's message replies to nothing the store knows.
Unmatched(e) ==
    ReplyTo(e) = 0 \/ CorrelationKey(From(e), ReplyTo(e)) \notin DOMAIN ticketMap

\* C7 as stated: an operator's text message that replies to nothing, or to a
\* message the store does not know, causes no call at all and leaves both
\* stores as they were.
C7_UnmatchedOperatorTextSilent ==
    [][LET e == event'
       IN  (Kind(e) = "text" /\ From(e) \in OperatorChats /\ Unmatched(e))
             => /\ calls' = <<>>
                /\ userLanguage' = userLanguage
                /\ ticketMap' = ticketMap]_vars

\* C7, amended: the same of every text message other than the /start command.
C7_UnmatchedOperatorTextSilentExceptStart ==
    [][LET e == event'
       IN  (Kind(e) = "text" /\ From(e) \in OperatorChats /\ Text(e) # StartCmd
              /\ Unmatched(e))
             => /\ calls' = <<>>
                /\ userLanguage' = userLanguage
                /\ ticketMap' = ticketMap]_vars

\* The ru operator replied to a message id only the en operator's chat has a
\* ticket for.
C7_Witness ==
    /\ Kind(event) = "text" /\ Text(event) # StartCmd
    /\ From(event) = BoundOperator("ru") /\ ReplyTo(event) = 1
    /\ CorrelationKey(BoundOperator("ru"), 1) \notin DOMAIN ticketMap
    /\ CorrelationKey(BoundOperator("en"), 1) \in DOMAIN ticketMap
    /\ calls = <<>>

\* ------------------------------------------------------------------- C8
\* Vocabulary of the bootstrap claims.  In a state of SpecBoot with
\* phase # "boot", bootCalls is the whole run of the bootstrap: its calls in
\* order, each with its argument and its result.
RegistrationCalls == {i \in 1..Len(bootCalls) : bootCalls[i][1] = "setWebhook"}

\* The run took the webhook path and its status query answered.
StatusReported ==
    /\ phase # "boot"
    /\ Len(bootCalls) >= 1
    /\ bootCalls[1][1] = "getWebhookInfo"
    /\ bootCalls[1][3] = "ok"

\* The URL the status query reported, and the URL the configuration asks for.
ReportedUrl == bootCalls[1][2]
DesiredUrl == GetWebhookConfig(env)

\* C8 as stated: over one whole run in webhook mode, a reported URL equal to
\* the desired one means no registration call, a different one exactly one.
C8_OneRegistrationOnMismatch ==
    StatusReported =>
        /\ ReportedUrl = DesiredUrl => Cardinality(RegistrationCalls) = 0
        /\ ReportedUrl # DesiredUrl => Cardinality(RegistrationCalls) = 1

\* C8, amended: on a mismatch one registration call is made, and exactly one
\* more if and only if that call fails with a failure that is no rate limit.
C8_OneRegistrationAndOneRetry ==
    StatusReported =>
        /\ ReportedUrl = DesiredUrl => Cardinality(RegistrationCalls) = 0
        /\ ReportedUrl # DesiredUrl =>
             /\ Len(bootCalls) >= 2
             /\ bootCalls[2][1] = "setWebhook"
             /\ Cardinality(RegistrationCalls) = (IF bootCalls[2][3] = "error" THEN 2 ELSE 1)

\* A mismatch whose registration failed and was repeated, then served.
C8_Witness ==
    /\ StatusReported
    /\ ReportedUrl # DesiredUrl
    /\ Cardinality(RegistrationCalls) = 2
    /\ phase = "webhook"

\* A registered URL equal to the desired one, left alone.
C8_WitnessEqual ==
    /\ StatusReported
    /\ ReportedUrl = DesiredUrl
    /\ RegistrationCalls = {}
    /\ phase = "webhook"

\* ------------------------------------------------------------------- C9
\* C9: in webhook mode no registration call follows a status query or a
\* registration call that failed with a rate-limit (429) failure.
C9_NoRegistrationAfter429 ==
    \A i \in 1..Len(bootCalls) :
        (bootCalls[i][1] \in {"getWebhookInfo", "setWebhook"} /\ bootCalls[i][3] = "429")
          => \A j \in (i + 1)..Len(bootCalls) : bootCalls[j][1] # "setWebhook"

\* The status query was rate limited and the bootstrap went on to serve.
C9_Witness ==
    /\ Len(bootCalls) = 2
    /\ bootCalls[1][1] = "getWebhookInfo" /\ bootCalls[1][3] = "429"
    /\ bootCalls[2][1] = "launch"
    /\ phase = "webhook"

\* --------------------------------------------------------------------- C10
\* The run cleared the webhook with pending updates dropped and then started
\* long polling with pending updates discarded.
ClearedThenPolled ==
    \E i, j \in 1..Len(bootCalls) :
        /\ i < j
        /\ bootCalls[i] = <<"deleteWebhook", <<"drop_pending_updates">>, "ok">>
        /\ bootCalls[j] = <<"launch", <<"dropPendingUpdates">>, "ok">>

\* C10: without a webhook base URL the bootstrap makes no status-query or
\* registration call and, when it starts long polling, has cleared the
\* webhook with pending updates dropped and polls with pending updates
\* discarded; with a webhook base URL, long polling is never started.
C10_PollingBootstrap ==
    phase # "boot" =>
        /\ env.WEBHOOK_URL = NoUrl =>
             /\ \A i \in 1..Len(bootCalls) :
                    bootCalls[i][1] \notin {"getWebhookInfo", "setWebhook"}
             /\ phase = "polling" => ClearedThenPolled
        /\ env.WEBHOOK_URL # NoUrl => phase # "polling"

\* C10 of part_000 alone.
C10_Part000_PollingBootstrap ==
    (entry = "part_000" /\ phase # "boot") =>
        /\ env.WEBHOOK_URL = NoUrl =>
             /\ \A i \in 1..Len(bootCalls) :
                    bootCalls[i][1] \notin {"getWebhookInfo", "setWebhook"}
             /\ phase = "polling" => ClearedThenPolled
        /\ env.WEBHOOK_URL # NoUrl => phase # "polling"

\* --------------------------------------------------------------------- C11
\* A user acknowledgment, in either language.
IsAcknowledgment(c) ==
    Api(c) = "sendMessage" /\ \E L \in Langs : Body(c) = AckText(L)

\* C11 as stated: handling a text message of an operator never sends a
\* notification, an acknowledgment or a language prompt, and never adds a
\* correlation entry, whatever language the operator has selected.
C11_OperatorTextNeverRequest ==
    [][LET e == event'
       IN  (Kind(e) = "text" /\ From(e) \in OperatorChats)
             => /\ \A i \in 1..Len(calls') :
                      /\ ~IsNotification(calls'[i])
                      /\ ~IsAcknowledgment(calls'[i])
                      /\ ~IsLanguagePrompt(calls'[i])
                /\ ticketMap' = ticketMap]_vars

\* C11, amended: the same, except that the /start command of an operator is
\* answered with the language prompt, as anyone's /start is.
C11_OperatorTextNeverRequestExceptStart ==
    [][LET e == event'
       IN  (Kind(e) = "text" /\ From(e) \in OperatorChats)
             => /\ \A i \in 1..Len(calls') :
                      /\ ~IsNotification(calls'[i])
                      /\ ~IsAcknowledgment(calls'[i])
                      /\ IsLanguagePrompt(calls'[i]) => Text(e) = StartCmd
                /\ ticketMap' = ticketMap]_vars

\* The en operator, having selected the language ru, wrote a plain text while
\* tickets were open, and nothing was sent.
C11_Witness ==
    /\ Kind(event) = "text" /\ Text(event) # StartCmd
    /\ From(event) = BoundOperator("en")
    /\ userLanguage[From(event)] = "ru"
    /\ ticketMap # <<>>
    /\ calls = <<>>

\* --------------------------------------------------------------------- C12
\* C12: in every state each user has one entry of the Session Store, a
\* language of {ru, en} or none, and a user that has a language has one in
\* every later state.
C12_LanguageNeverUnset ==
    /\ [](userLanguage \in [UserIds -> Langs \cup {Unset}])
    /\ [][\A u \in UserIds : userLanguage[u] \in Langs => userLanguage'[u] \in Langs]_vars

\* A user with the language en selected en while another user had ru and
\* tickets were open.
C12_Witness ==
    /\ Kind(event) = "callback_query" /\ Data(event) = <<"lang", "en">>
    /\ userLanguage[From(event)] = "en"
    /\ \E u \in UserIds \ {From(event)} : userLanguage[u] = "ru"
    /\ ticketMap # <<>>

\* --------------------------------------------------------------------- C13
\* The update is a language selection.
IsLanguageSelection(e) ==
    Kind(e) = "callback_query" /\ Len(Data(e)) = 2 /\ Data(e)[1] = "lang"

\* C13: only a language selection changes the Session Store, and only the
\* entry of the user that selects; a language selection leaves the Ticket
\* Correlation Store as it was.
C13_SessionStoreFrame ==
    [][LET e == event'
       IN  /\ userLanguage' # userLanguage =>
                /\ IsLanguageSelection(e)
                /\ \A u \in UserIds \ {From(e)} : userLanguage'[u] = userLanguage[u]
           /\ IsLanguageSelection(e) => ticketMap' = ticketMap]_vars

\* A user changed language while tickets were open and another user kept
\* the other language.
C13_Witness ==
    /\ IsLanguageSelection(event)
    /\ userLanguage[From(event)] = "ru"
    /\ \E u \in UserIds \ {From(event)} : userLanguage[u] = "en"
    /\ Cardinality(DOMAIN ticketMap) >= 2

\* --------------------------------------------------------------------- C14
\* C14: with message ids fresh in each chat, an entry of the Ticket
\* Correlation Store is never changed or removed: what (r, m) maps to in one
\* state it maps to in every later state.
C14_TicketsNeverChange ==
    [][\A k \in DOMAIN ticketMap :
         k \in DOMAIN ticketMap' /\ ticketMap'[k] = ticketMap[k]]_vars

\* A reply prompt was recorded in a chat that already held a notification's
\* entry.
C14_Witness ==
    /\ Kind(event) = "callback_query" /\ Data(event)[1] = "reply"
    /\ Len(calls) >= 1 /\ Ok(calls[1]) /\ MessageId(calls[1]) = 2
    /\ CorrelationKey(From(event), 1) \in DOMAIN ticketMap
    /\ CorrelationKey(From(event), 2) \in DOMAIN ticketMap

\* --------------------------------------------------------------------- C15
\* C15: a language selection of L by U results, within its handling, in the
\* Session Store mapping U to L, in an answer to the callback query and in an
\* edit of the originating message to the confirmation text (the transport
\* accepting the calls).
C15_SelectionAcknowledged ==
    [][LET e == event'
       IN  (IsLanguageSelection(e) /\ AllAccepted(calls'))
             => /\ userLanguage'[From(e)] = Data(e)[2]
                /\ \E i \in 1..Len(calls') : Api(calls'[i]) = "answerCbQuery"
                /\ \E i \in 1..Len(calls') :
                      /\ Api(calls'[i]) = "editMessageText"
                      /\ Body(calls'[i]) = LangSetText(Data(e)[2])]_vars

\* C15 without the answer to the callback query: the selection is stored and
\* the message edited, and selecting the language one has changes nothing.
C15_SelectionStoredAndEdited ==
    [][LET e == event'
       IN  IsLanguageSelection(e)
             => /\ userLanguage'[From(e)] = Data(e)[2]
                /\ Len(calls') = 1
                /\ Api(calls'[1]) = "editMessageText"
                /\ Body(calls'[1]) = LangSetText(Data(e)[2])
                /\ userLanguage[From(e)] = Data(e)[2] => userLanguage' = userLanguage]_vars

\* --------------------------------------------------------------------- C16
\* The status query of the run failed with a failure that is no rate limit.
StatusFailed ==
    /\ phase # "boot"
    /\ Len(bootCalls) >= 1
    /\ bootCalls[1][1] = "getWebhookInfo"
    /\ bootCalls[1][3] = "error"

\* C16: in webhook mode, when the status query fails without rate limiting,
\* the bootstrap registers the desired URL blindly, with exactly one
\* setWebhook call, and launches only after it.
C16_BlindRegistration ==
    StatusFailed =>
        /\ Len(bootCalls) >= 2
        /\ bootCalls[2][1] = "setWebhook"
        /\ bootCalls[2][2] = DesiredUrl
        /\ RegistrationCalls = {2}
        /\ \A i \in 1..Len(bootCalls) : bootCalls[i][1] = "launch" => i = 3

\* The status query failed, the blind registration succeeded, the bot serves.
C16_Witness ==
    /\ StatusFailed
    /\ Len(bootCalls) = 3
    /\ bootCalls[2] = <<"setWebhook", DesiredUrl, "ok">>
    /\ bootCalls[3][1] = "launch"
    /\ phase = "webhook"

\* --------------------------------------------------------------------- C20
\* C20: whatever an operator A sends, a message goes out to someone else, u,
\* only if A's message replies to a message m and the store maps (A, m) to u;
\* so an entry keyed under the other operator, (B, m), forwards nothing.
C20_CorrelationScopedToOperator ==
    [][LET e == event'
           A == From(e)
       IN  (Kind(e) \in {"text", "message"} /\ A \in OperatorChats)
             => \A i \in 1..Len(calls') :
                    (Api(calls'[i]) = "sendMessage" /\ To(calls'[i]) # A)
                      => /\ ReplyTo(e) # 0
                         /\ CorrelationKey(A, ReplyTo(e)) \in DOMAIN ticketMap
                         /\ ticketMap[CorrelationKey(A, ReplyTo(e))] = To(calls'[i])]_vars

\* The en operator's message reached the reply handler of index.js, replying
\* to an id only the ru operator's chat has a ticket for; nothing was sent.
C20_Witness ==
    /\ entry = "index.js"
    /\ Kind(event) = "message"
    /\ From(event) = BoundOperator("en") /\ ReplyTo(event) = 1
    /\ CorrelationKey(BoundOperator("ru"), 1) \in DOMAIN ticketMap
    /\ CorrelationKey(BoundOperator("en"), 1) \notin DOMAIN ticketMap
    /\ calls = <<>>

\* The reply handler of index.js found the operator's own entry and sent to
\* the user of that entry.
C20_WitnessOwnEntry ==
    /\ entry = "index.js"
    /\ Kind(event) = "message" /\ From(event) \in OperatorChats
    /\ Len(calls) = 1 /\ Api(calls[1]) = "sendMessage"
    /\ To(calls[1]) = ticketMap[CorrelationKey(From(event), ReplyTo(event))]

\* --------------------------------------------------------------------- C19
\* A send of the handling failed: a notification, a reply prompt, an
\* acknowledgment or a forwarded reply.
SendFailed(cs) ==
    \E i \in 1..Len(cs) :
        Api(cs[i]) = "sendMessage" /\ ~IsLanguagePrompt(cs[i]) /\ ~Ok(cs[i])

\* The handling recorded entries only for messages the transport accepted,
\* and left every older entry and the Session Store as they were.
StoresConfined ==
    /\ userLanguage' = userLanguage
    /\ \A k \in DOMAIN ticketMap : k \in DOMAIN ticketMap' /\ ticketMap'[k] = ticketMap[k]
    /\ \A k \in DOMAIN ticketMap' \ DOMAIN ticketMap :
         /\ ticketMap'[k] \in OrdinaryUsers
         /\ \E i \in 1..Len(calls') :
              /\ Api(calls'[i]) = "sendMessage" /\ Ok(calls'[i])
              /\ k = CorrelationKey(To(calls'[i]), MessageId(calls'[i]))

\* C19 as stated: a failed send is confined to its event: the process does
\* not terminate, no entry is recorded for the failed message, and the stores
\* later events meet hold nothing partial.
C19_SendFailureConfined ==
    [][SendFailed(calls') => (phase' # "exited" /\ StoresConfined)]_vars

\* C19 of the stores alone.
C19_StoresConfinedOnFailure ==
    [][SendFailed(calls') => StoresConfined]_vars

\* --------------------------------------------------------------------- C17
\* In a step of SpecPar, event' is the update whose handler took the step
\* (none for a step of the transport); calls' is empty when the handler has
\* just issued its awaited send, and holds the answered send and what
\* followed it when the handler ran on to its end.

\* The update is a support request: a text of a non-operator user that has
\* language L.
IsRequest(e, L) ==
    /\ Kind(e) = "text" /\ Text(e) # StartCmd
    /\ From(e) \in OrdinaryUsers
    /\ L \in Langs

\* The notification of request e in language L, on its way.
NotificationOf(e, L) ==
    <<"sendMessage", BoundOperator(L),
      NotificationText(L, Username(e), From(e), Text(e)),
      <<<<"reply", Decimal[From(e)]>>>>, FALSE, 0>>

C17_SequentialForwardedInOrder ==
    [][LET e == event'
           L == userLanguage[From(e)]
       IN  IsRequest(e, L)
             => /\ Len(calls') >= 1
                /\ IsNotification(calls'[1])
                /\ To(calls'[1]) = BoundOperator(L)
                /\ Body(calls'[1]) = NotificationText(L, Username(e), From(e), Text(e))
                /\ Ok(calls'[1]) => MessageId(calls'[1]) = nextId[BoundOperator(L)]
                /\ \A i \in 1..Len(calls') :
                     IsAcknowledgment(calls'[i]) => (i = 2 /\ Ok(calls'[1]))]_vars

\* --------------------------------------------------------------------- C18
\* C18: with handlers interleaving at their awaited sends, an operator's
\* reply to a notification or prompt m that the transport has delivered is
\* never handled while the handler that sent m has yet to record
\* (operator, m).
C18_ReplyNeverBeforeEntry ==
    [][LET e == event'
       IN  (Kind(e) \in {"text", "message"} /\ From(e) \in OperatorChats /\ ReplyTo(e) # 0)
             => \A h \in pending :
                    ~(/\ Stage(h) = "delivered" /\ Ok(Sent(h))
                      /\ To(Sent(h)) = From(e)
                      /\ MessageId(Sent(h)) = ReplyTo(e)
                      /\ CorrelationKey(From(e), ReplyTo(e)) \notin DOMAIN ticketMap)]_vars

====
